---------------------------- MODULE Spec2Model ----------------------------
(***************************************************************************)
(* Model of the ad-analysis engine (src/services/analysisService.ts, the   *)
(* second and most complete analyzeAds, lines 270-501) and of the place    *)
(* where the presentation layer reads its result                           *)
(* (src/components/AnalysisView.tsx); further down, of the narrative       *)
(* generator (src/services/geminiService.ts), of the record extractor      *)
(* (src/services/excelService.ts) and of the App that runs them            *)
(* (src/unnamed/part_001, src/components/FileUpload.tsx).                  *)
(*                                                                         *)
(* Numbers.  A JavaScript number is modelled as an exact rational          *)
(* [n |-> numerator, d |-> denominator], d >= 0, in lowest terms.  d = 0   *)
(* encodes the non-finite results of a division by zero: 1/0 is Infinity,  *)
(* -1/0 is -Infinity, 0/0 is NaN.  Rounding of binary floating point is    *)
(* modelled for the running sums of the aggregation only.                  *)
(***************************************************************************)
EXTENDS Integers, Sequences, FiniteSets, TLC

VARIABLES
    pc,       \* where the analyzeAds invocation stands: "idle", "timer"
              \* (suspended in its await), "resolved", "rendered"
    data,     \* the AdData[] argument of the invocation; in the App, its
              \* data state
    result,   \* <<>> or <<the AnalysisResult the promise resolved with>>
    engine,   \* <<>> or <<the local constants of the finished invocation>>
    view,     \* <<>> or <<what AnalysisView derived from the result>>
    heap,     \* what outlives an invocation: the names of the objects of
              \* Object.prototype that aggregate has added its sums to
    appState, \* the App's appState: "IDLE", "PARSING", "ANALYZING",
              \* "SUCCESS" or "ERROR"
    analysis, \* the App's analysis state: <<>> for null or
              \* <<the AnalysisResult>>
    error,    \* the App's error state: <<>> for null or <<the message>>
    runs      \* the runs of handleFileSelect, in the order they were
              \* started: the file of each, where it stands and what it
              \* has got so far

vars == <<pc, data, result, engine, view, heap, appState, analysis, error, runs>>

\* the state of the App that the engine leaves alone
appVars == <<appState, analysis, error, runs>>

\* the App as its useState calls initialise it, with no file selected yet
AppInit ==
    /\ appState = "IDLE"
    /\ analysis = <<>>
    /\ error = <<>>
    /\ runs = <<>>

----------------------------------------------------------------------------
(* Rational arithmetic standing for JavaScript number arithmetic.          *)

Abs(i) == IF i < 0 THEN -i ELSE i

Sign(i) == IF i < 0 THEN -1 ELSE IF i > 0 THEN 1 ELSE 0

RECURSIVE Gcd(_, _)
Gcd(a, b) == IF b = 0 THEN a ELSE Gcd(b, a % b)

\* the number n/d, in lowest terms with the sign in the numerator
Q(n, d) ==
    IF d = 0 THEN [n |-> Sign(n), d |-> 0]
    ELSE LET s == IF d < 0 THEN -1 ELSE 1
             g == Gcd(Abs(n), Abs(d))
         IN  [n |-> (s * n) \div g, d |-> (s * d) \div g]

Num(i) == [n |-> i, d |-> 1]

Zero == Num(0)

IsNaN(x) == x.n = 0 /\ x.d = 0

IsFinite(x) == x.d > 0

\* a + b
Add(a, b) ==
    IF a.d = 0 /\ b.d = 0
    THEN (IF a.n = b.n THEN a ELSE [n |-> 0, d |-> 0])
    ELSE Q(a.n * b.d + b.n * a.d, a.d * b.d)

\* a - b
Sub(a, b) == Add(a, [n |-> -b.n, d |-> b.d])

\* a * b
Mul(a, b) == Q(a.n * b.n, a.d * b.d)

\* a / b
Div(a, b) == Q(a.n * b.d, a.d * b.n)

\* a < b; every comparison with NaN is false
Lt(a, b) ==
    IF IsNaN(a) \/ IsNaN(b) THEN FALSE
    ELSE IF a.d = 0 /\ b.d = 0 THEN a.n < b.n
    ELSE a.n * b.d < b.n * a.d

Gt(a, b) == Lt(b, a)

\* a <= b
Le(a, b) ==
    IF IsNaN(a) \/ IsNaN(b) THEN FALSE
    ELSE IF a.d = 0 /\ b.d = 0 THEN a.n <= b.n
    ELSE a.n * b.d <= b.n * a.d

Ge(a, b) == Le(b, a)

\* a === b on numbers
NumEq(a, b) == ~IsNaN(a) /\ a = b

----------------------------------------------------------------------------
(* Array helpers.                                                          *)

\* a sum of numbers by Array.prototype.reduce((sum, x) => sum + x, 0): a
\* left fold in index order over the terms
SumReduce(terms) ==
    LET sum[i \in 0..Len(terms)] ==
            IF i = 0 THEN Zero ELSE Add(sum[i - 1], terms[i])
    IN  sum[Len(terms)]

\* Array.prototype.filter: keep[i] is what the callback answers for the
\* i-th element; the result lists the kept elements in order, each written
\* as its index (an index stands for the reference to that element)
FilterIdx(keep) ==
    LET f[i \in 0..Len(keep)] ==
            IF i = 0 THEN <<>>
            ELSE IF keep[i] THEN Append(f[i - 1], i) ELSE f[i - 1]
    IN  f[Len(keep)]

\* Array.prototype.sort(cmp), which is stable: cmp[<<a, b>>] is the sign of
\* the comparator on the elements at positions a and b of seq
StableSort(seq, cmp) ==
    LET Insert(s, x) ==
            LET k == Cardinality({j \in 1..Len(s) : cmp[<<s[j], x>>] <= 0})
            IN  SubSeq(s, 1, k) \o <<x>> \o SubSeq(s, k + 1, Len(s))
        pos[i \in 0..Len(seq)] ==
            IF i = 0 THEN <<>> ELSE Insert(pos[i - 1], i)
    IN  [j \in 1..Len(seq) |-> seq[pos[Len(seq)][j]]]

\* the comparator table of an array
Pairs(seq) == (1..Len(seq)) \X (1..Len(seq))

\* sign of the number a comparator returned
CmpSign(x) == Sign(x.n)

----------------------------------------------------------------------------
(* analyzeAds, part 1: global metrics and context.                         *)

ResultTypes == {"purchase", "message", "lead", "generic"}

\* the fold started at the second row
totalSpentSkipsFirst(d) ==
    SumReduce([i \in 1..(IF Len(d) = 0 THEN 0 ELSE Len(d) - 1) |-> d[i + 1].amountSpent])

totalSpent(d) == SumReduce([i \in 1..Len(d) |-> d[i].amountSpent])

\* the ROAS summed without its weight, the spend
totalRevenueSumsRoas(d) == SumReduce([i \in 1..Len(d) |-> d[i].roas])

totalRevenue(d) == SumReduce([i \in 1..Len(d) |-> Mul(d[i].amountSpent, d[i].roas)])

totalResults(d) == SumReduce([i \in 1..Len(d) |-> d[i].results])

\* the division without its guard
avgRoasUnguarded(spent, revenue) == Div(revenue, spent)

avgRoas(spent, revenue) == IF Gt(spent, Zero) THEN Div(revenue, spent) ELSE Zero

\* the division without its guard
avgCpaUnguarded(spent, nresults) == Div(spent, nresults)

avgCpa(spent, nresults) == IF Gt(nresults, Zero) THEN Div(spent, nresults) ELSE Zero

\* the counts object after the for-of loop: keys is Object.keys(counts) (own
\* string keys in insertion order; the result-type tags are no array
\* indices), val[k] is counts[k] for an own key k
counts(d) ==
    LET c[i \in 0..Len(d)] ==
            IF i = 0 THEN [keys |-> <<>>, val |-> [t \in ResultTypes |-> 0]]
            ELSE LET before == c[i - 1]
                     type == d[i].resultType
                 IN  IF \E j \in 1..Len(before.keys) : before.keys[j] = type
                     THEN [before EXCEPT !.val[type] = @ + 1]
                     ELSE [keys |-> Append(before.keys, type),
                           val  |-> [before.val EXCEPT ![type] = 1]]
    IN  c[Len(d)]

HasOwn(c, k) == \E j \in 1..Len(c.keys) : c.keys[j] = k

\* counts[a] > counts[b]; counts[a] is undefined for a key that is not
\* there, and undefined > x is false
countsGt(c, a, b) == HasOwn(c, a) /\ HasOwn(c, b) /\ c.val[a] > c.val[b]

\* the reduce with >= for >: the earlier key keeps a tie
dominantFirstWins(c) ==
    LET a[i \in 0..Len(c.keys)] ==
            IF i = 0 THEN "generic"
            ELSE IF HasOwn(c, a[i - 1]) /\ c.val[a[i - 1]] >= c.val[c.keys[i]]
                 THEN a[i - 1] ELSE c.keys[i]
    IN  a[Len(c.keys)]

\* Object.keys(counts).reduce((a, b) => counts[a] > counts[b] ? a : b, 'generic')
dominantResultType(c) ==
    LET a[i \in 0..Len(c.keys)] ==
            IF i = 0 THEN "generic"
            ELSE IF countsGt(c, a[i - 1], c.keys[i]) THEN a[i - 1] ELSE c.keys[i]
    IN  a[Len(c.keys)]

\* && for ||
isEcommerceBoth(roasAvg, dominant) == Gt(roasAvg, Q(1, 2)) /\ dominant = "purchase"

isEcommerce(roasAvg, dominant) == Gt(roasAvg, Q(1, 2)) \/ dominant = "purchase"

----------------------------------------------------------------------------
(* analyzeAds, part 2: dynamic thresholds.                                 *)

roasThreshold(roasAvg) ==
    [good |-> Mul(roasAvg, Q(12, 10)), bad |-> Mul(roasAvg, Q(8, 10))]

cpaThreshold(cpaAvg) ==
    [good |-> IF Gt(cpaAvg, Zero) THEN Mul(cpaAvg, Q(8, 10)) ELSE Zero,
     bad  |-> IF Gt(cpaAvg, Zero) THEN Mul(cpaAvg, Q(13, 10)) ELSE Zero]

\* data.length without its || 1
lengthRaw(d) == Len(d)

\* data.length || 1
lengthOr1(d) == IF Len(d) = 0 THEN 1 ELSE Len(d)

significanceThreshold(cpaAvg, spent, d) ==
    IF Gt(cpaAvg, Zero) THEN cpaAvg ELSE Div(spent, Num(lengthOr1(d)))

----------------------------------------------------------------------------
(* analyzeAds, part 3: aggregation by ad-set name and by ad name.          *)

\* keys that a plain object literal {} already answers through its
\* prototype (map[key] is truthy without being an own property)
InheritedKeys == {"constructor", "toString", "__proto__"}

\* own keys that are array indices, with their numeric value
IndexKeyValue == ("7" :> 7) @@ ("12" :> 12)

IsIndexKey(k) == k \in DOMAIN IndexKeyValue

\* Object.keys / Object.values order of an object whose own string keys
\* were inserted in the order ins: array indices ascending, then the rest
\* in insertion order
ObjectKeys(ins) ==
    LET IsIdx(k) == IsIndexKey(k)
        NotIdx(k) == ~IsIndexKey(k)
        idx == SelectSeq(ins, IsIdx)
    IN  StableSort(idx, [p \in Pairs(idx) |->
                            Sign(IndexKeyValue[idx[p[1]]] - IndexKeyValue[idx[p[2]]])])
            \o SelectSeq(ins, NotIdx)

HasKey(keys, k) == \E j \in 1..Len(keys) : keys[j] = k

\* the key of every row under d => d.adSetName || 'Unknown AdSet'
adSetKeys(d) ==
    [i \in 1..Len(d) |-> IF d[i].adSetName = "" THEN "Unknown AdSet" ELSE d[i].adSetName]

\* the key of every row under d => d.adName || 'Unknown Creative'
creativeKeys(d) ==
    [i \in 1..Len(d) |-> IF d[i].adName = "" THEN "Unknown Creative" ELSE d[i].adName]

ZeroMetrics(key) ==
    [name |-> key, spend |-> Zero, revenue |-> Zero, results |-> Zero,
     impressions |-> Zero, clicks |-> Zero]

\* = for +=: the group keeps its last row only
addRowOverwrites(m, item) ==
    [m EXCEPT !.spend = item.amountSpent,
              !.revenue = Mul(item.amountSpent, item.roas),
              !.results = item.results,
              !.impressions = item.impressions,
              !.clicks = item.clicks]

\* the sums of one group, after the forEach
addRow(m, item) ==
    [m EXCEPT !.spend = Add(@, item.amountSpent),
              !.revenue = Add(@, Mul(item.amountSpent, item.roas)),
              !.results = Add(@, item.results),
              !.impressions = Add(@, item.impressions),
              !.clicks = Add(@, item.clicks)]

\* the ratios, derived in the final map() from the finished sums
withRatios(m) ==
    [name |-> m.name, spend |-> m.spend, revenue |-> m.revenue,
     results |-> m.results, impressions |-> m.impressions, clicks |-> m.clicks,
     roas |-> IF Gt(m.spend, Zero) THEN Div(m.revenue, m.spend) ELSE Zero,
     cpa  |-> IF Gt(m.results, Zero) THEN Div(m.spend, m.results) ELSE Zero,
     ctr  |-> IF Gt(m.impressions, Zero)
              THEN Mul(Div(m.clicks, m.impressions), Num(100)) ELSE Zero,
     cpc  |-> IF Gt(m.clicks, Zero) THEN Div(m.spend, m.clicks) ELSE Zero]

\* aggregate(keyFn), keyOf[i] being keyFn(data[i]).  For a key the
\* prototype answers, !map[key] is false and the sums are added to the
\* inherited object: map gets no own entry.
aggregate(d, keyOf) ==
    LET map[i \in 0..Len(d)] ==
            IF i = 0 THEN [keys |-> <<>>, at |-> <<>>]
            ELSE LET before == map[i - 1]
                     key == keyOf[i]
                 IN  IF key \in InheritedKeys THEN before
                     ELSE IF HasKey(before.keys, key)
                     THEN [before EXCEPT !.at[key] = addRow(@, d[i])]
                     ELSE [keys |-> Append(before.keys, key),
                           at   |-> (key :> addRow(ZeroMetrics(key), d[i])) @@ before.at]
        final == map[Len(d)]
        order == ObjectKeys(final.keys)
    IN  [j \in 1..Len(order) |-> withRatios(final.at[order[j]])]

\* The objects that the two aggregations have written to when they are
\* done, h being those written to before.  For a key the prototype answers,
\* map[key].spend += x is undefined + x the first time and NaN + x from
\* then on: the object carries NaN sums either way, and no code reads them.
inheritedWritten(h, d) ==
    h \cup ({adSetKeys(d)[i] : i \in 1..Len(d)} \cap InheritedKeys)
      \cup ({creativeKeys(d)[i] : i \in 1..Len(d)} \cap InheritedKeys)

topCreatives(creatives, sig, ecom, roasAvg, cpaAvg) ==
    LET Keep(c) == Gt(c.spend, sig)
                   /\ (IF ecom THEN Gt(c.roas, roasAvg) ELSE Lt(c.cpa, cpaAvg))
        kept == SelectSeq(creatives, Keep)
    IN  StableSort(kept, [p \in Pairs(kept) |->
            IF ecom THEN CmpSign(Sub(kept[p[2]].roas, kept[p[1]].roas))
            ELSE CmpSign(Sub(kept[p[1]].cpa, kept[p[2]].cpa))])

badCreatives(creatives, sig, ecom, roasT, cpaT) ==
    LET Keep(c) == Gt(c.spend, sig)
                   /\ (IF ecom THEN Lt(c.roas, roasT.bad) ELSE Gt(c.cpa, cpaT.bad))
        kept == SelectSeq(creatives, Keep)
    IN  StableSort(kept, [p \in Pairs(kept) |->
            CmpSign(Sub(kept[p[2]].spend, kept[p[1]].spend))])

----------------------------------------------------------------------------
(* The running sums of aggregate in double precision.  The exact           *)
(* arithmetic above leaves out the rounding that every operation on a      *)
(* JavaScript number carries; where the order of the additions matters,    *)
(* map[key].spend += item.amountSpent is modelled with it.  A double is    *)
(* written as its magnitude in units of 2^-55, in two limbs: the value is  *)
(* (hi * Limb + lo) * 2^-55.  Every such magnitude of at most 53           *)
(* significant bits is a double.                                           *)

Limb == 2^28

Precision == 53

DoubleZero == [hi |-> 0, lo |-> 0]

\* the number of significant bits of a natural number
RECURSIVE BitLength(_)
BitLength(x) == IF x = 0 THEN 0 ELSE 1 + BitLength(x \div 2)

\* the double nearest to an exact magnitude, ties to the even significand;
\* the bits that are dropped lie in the low limb
RoundToDouble(x) ==
    LET bits == IF x.hi = 0 THEN BitLength(x.lo) ELSE 28 + BitLength(x.hi)
        drop == IF bits > Precision THEN bits - Precision ELSE 0
        step == 2^drop
        rest == x.lo % step
        down == x.lo - rest
        odd  == (down \div step) % 2 = 1
        up   == 2 * rest > step \/ (2 * rest = step /\ odd)
        lo   == IF up THEN down + step ELSE down
    IN  IF lo >= Limb THEN [hi |-> x.hi + 1, lo |-> lo - Limb]
        ELSE [hi |-> x.hi, lo |-> lo]

\* a + b on non-negative doubles: the exact sum, rounded
DoubleAdd(a, b) ==
    LET lo == a.lo + b.lo
    IN  RoundToDouble(IF lo >= Limb THEN [hi |-> a.hi + b.hi + 1, lo |-> lo - Limb]
                      ELSE [hi |-> a.hi + b.hi, lo |-> lo])

\* map[key].spend after the forEach: 0 when the group is created, then
\* += item.amountSpent for every row of that key, in row order
runningSpend(rows, key) ==
    LET spend[i \in 0..Len(rows)] ==
            IF i = 0 THEN DoubleZero
            ELSE IF rows[i].adSetName = key
                 THEN DoubleAdd(spend[i - 1], rows[i].amountSpent)
                 ELSE spend[i - 1]
    IN  spend[Len(rows)]

\* the spend of every ad-set group
groupSpends(rows) ==
    [key \in {rows[i].adSetName : i \in 1..Len(rows)} |-> runningSpend(rows, key)]

----------------------------------------------------------------------------
(* analyzeAds, part 4: row-level segmentation.  A bucket is the array of   *)
(* the kept rows, written as their indices in data.                        *)

\* the floor taken whole instead of halved
zombiesNoHalf(d, sig) ==
    FilterIdx([i \in 1..Len(d) |->
        NumEq(d[i].results, Zero) /\ Gt(d[i].amountSpent, sig)])

zombies(d, sig) ==
    FilterIdx([i \in 1..Len(d) |->
        NumEq(d[i].results, Zero) /\ Gt(d[i].amountSpent, Mul(sig, Q(1, 2)))])

\* the spend floor forgotten
bleedersNoSpendFloor(d, sig, ecom, roasT, cpaT) ==
    FilterIdx([i \in 1..Len(d) |->
        IF NumEq(d[i].results, Zero) THEN FALSE
        ELSE IF ecom THEN Lt(d[i].roas, roasT.bad)
        ELSE Gt(d[i].costPerResult, cpaT.bad)])

bleeders(d, sig, ecom, roasT, cpaT) ==
    FilterIdx([i \in 1..Len(d) |->
        IF NumEq(d[i].results, Zero) THEN FALSE
        ELSE IF Lt(d[i].amountSpent, sig) THEN FALSE
        ELSE IF ecom THEN Lt(d[i].roas, roasT.bad)
        ELSE Gt(d[i].costPerResult, cpaT.bad)])

\* the zero-result rows not excluded
winnersWithZeroResults(d, sig, ecom, roasT, cpaT) ==
    FilterIdx([i \in 1..Len(d) |->
        IF Lt(d[i].amountSpent, sig) THEN FALSE
        ELSE IF ecom THEN Ge(d[i].roas, roasT.good)
        ELSE Le(d[i].costPerResult, cpaT.good)])

winners(d, sig, ecom, roasT, cpaT) ==
    FilterIdx([i \in 1..Len(d) |->
        IF NumEq(d[i].results, Zero) THEN FALSE
        ELSE IF Lt(d[i].amountSpent, sig) THEN FALSE
        ELSE IF ecom THEN Ge(d[i].roas, roasT.good)
        ELSE Le(d[i].costPerResult, cpaT.good)])

\* the spend ceiling forgotten
potentialsNoSpendCeiling(d, sig, ecom, roasAvg, cpaAvg) ==
    FilterIdx([i \in 1..Len(d) |->
        IF NumEq(d[i].results, Zero) THEN FALSE
        ELSE IF ecom THEN Ge(d[i].roas, roasAvg)
        ELSE Le(d[i].costPerResult, cpaAvg)])

potentials(d, sig, ecom, roasAvg, cpaAvg) ==
    FilterIdx([i \in 1..Len(d) |->
        IF NumEq(d[i].results, Zero) THEN FALSE
        ELSE IF Ge(d[i].amountSpent, sig) THEN FALSE
        ELSE IF ecom THEN Ge(d[i].roas, roasAvg)
        ELSE Le(d[i].costPerResult, cpaAvg)])

----------------------------------------------------------------------------
(* analyzeAds, part 5: the markdown report.  The string is modelled as the *)
(* sequence of the pieces the code appends, each piece with the ad, ad-set *)
(* or creative name and the formatted figures it interpolates.             *)

\* x rounded to the nearest multiple of 1/scale, ties away from zero, as
\* the integer count of those multiples
Rounded(x, scale) ==
    Sign(x.n) * ((2 * Abs(x.n) * scale + x.d) \div (2 * x.d))

\* Number.prototype.toFixed(2): the figure in hundredths
toFixed2(x) ==
    IF x.d = 0 THEN [fmt |-> "nonfinite", n |-> x.n, d |-> 0]
    ELSE [fmt |-> "fixed2", n |-> Rounded(x, 100), d |-> 100]

\* toLocaleString(undefined, {maximumFractionDigits: 0}): grouped integer
toLocale0(x) ==
    IF x.d = 0 THEN [fmt |-> "nonfinite", n |-> x.n, d |-> 0]
    ELSE [fmt |-> "locale0", n |-> Rounded(x, 1), d |-> 1]

\* `${x}`: the number printed as it is
toText(x) == [fmt |-> "plain", n |-> x.n, d |-> x.d]

Piece(id, name, figs) == [id |-> id, name |-> name, figs |-> figs]

\* the last n elements for the first n
SliceFromEnd(arr, n) ==
    SubSeq(arr, IF Len(arr) < n THEN 1 ELSE Len(arr) - n + 1, Len(arr))

\* arr.slice(0, n)
Slice(arr, n) == SubSeq(arr, 1, IF Len(arr) < n THEN Len(arr) ELSE n)

\* the in-place sorts of the row buckets (on indices)
sortZombies(d, zs) ==
    StableSort(zs, [p \in Pairs(zs) |->
        CmpSign(Sub(d[zs[p[2]]].amountSpent, d[zs[p[1]]].amountSpent))])

\* worst first
sortBleeders(d, bs, ecom) ==
    StableSort(bs, [p \in Pairs(bs) |->
        IF ecom THEN CmpSign(Sub(d[bs[p[1]]].roas, d[bs[p[2]]].roas))
        ELSE CmpSign(Sub(d[bs[p[2]]].costPerResult, d[bs[p[1]]].costPerResult))])

\* best first: used for winners and for potentials
sortBest(d, ws, ecom) ==
    StableSort(ws, [p \in Pairs(ws) |->
        IF ecom THEN CmpSign(Sub(d[ws[p[2]]].roas, d[ws[p[1]]].roas))
        ELSE CmpSign(Sub(d[ws[p[1]]].costPerResult, d[ws[p[2]]].costPerResult))])

metricOf(row, ecom) == IF ecom THEN toFixed2(row.roas) ELSE toFixed2(row.costPerResult)

healthSection(spent, nresults, ecom, roasAvg, cpaAvg, cpaT) ==
    <<Piece("title", "", <<>>),
      Piece("health.header", "", <<>>),
      Piece("health.totals", "", <<toLocale0(spent), toText(nresults)>>)>>
    \o (IF NumEq(nresults, Zero) THEN <<Piece("health.noResults", "", <<>>)>>
        ELSE IF ecom
        THEN <<Piece("health.avgRoas", "", <<toFixed2(roasAvg)>>),
               Piece("health.breakEven", "", <<toFixed2(Mul(roasAvg, Q(8, 10)))>>)>>
        ELSE <<Piece("health.avgCpa", "", <<toFixed2(cpaAvg)>>),
               Piece("health.expensive", "", <<toFixed2(cpaT.bad)>>)>>)
    \o <<Piece("separator", "", <<>>)>>

\* the two blocks of the kill section in the other order
killSectionBleedersFirst(d, zs, bs, ecom) ==
    IF Len(zs) > 0 \/ Len(bs) > 0
    THEN <<Piece("kill.header", "", <<>>), Piece("kill.intro", "", <<>>)>>
         \o (IF Len(bs) > 0
             THEN <<Piece("kill.bleeders.header", "", <<>>)>>
                  \o [j \in 1..Len(Slice(bs, 3)) |->
                        Piece("kill.bleeder", d[Slice(bs, 3)[j]].adName,
                              <<toFixed2(d[Slice(bs, 3)[j]].amountSpent),
                                metricOf(d[Slice(bs, 3)[j]], ecom)>>)]
             ELSE <<>>)
         \o (IF Len(zs) > 0
             THEN <<Piece("kill.zombies.header", "", <<>>)>>
                  \o [j \in 1..Len(Slice(zs, 3)) |->
                        Piece("kill.zombie", d[Slice(zs, 3)[j]].adName,
                              <<toFixed2(d[Slice(zs, 3)[j]].amountSpent)>>)]
             ELSE <<>>)
         \o <<Piece("blank", "", <<>>)>>
    ELSE <<>>

\* zs and bs are the buckets already sorted in place
killSection(d, zs, bs, ecom) ==
    IF Len(zs) > 0 \/ Len(bs) > 0
    THEN <<Piece("kill.header", "", <<>>), Piece("kill.intro", "", <<>>)>>
         \o (IF Len(zs) > 0
             THEN <<Piece("kill.zombies.header", "", <<>>)>>
                  \o [j \in 1..Len(Slice(zs, 3)) |->
                        Piece("kill.zombie", d[Slice(zs, 3)[j]].adName,
                              <<toFixed2(d[Slice(zs, 3)[j]].amountSpent)>>)]
             ELSE <<>>)
         \o (IF Len(bs) > 0
             THEN <<Piece("kill.bleeders.header", "", <<>>)>>
                  \o [j \in 1..Len(Slice(bs, 3)) |->
                        Piece("kill.bleeder", d[Slice(bs, 3)[j]].adName,
                              <<toFixed2(d[Slice(bs, 3)[j]].amountSpent),
                                metricOf(d[Slice(bs, 3)[j]], ecom)>>)]
             ELSE <<>>)
         \o <<Piece("blank", "", <<>>)>>
    ELSE <<>>

scaleSection(d, ws, ecom) ==
    IF Len(ws) > 0
    THEN <<Piece("scale.header", "", <<>>), Piece("scale.intro", "", <<>>)>>
         \o [j \in 1..Len(Slice(ws, 3)) |->
               Piece("scale.winner", d[Slice(ws, 3)[j]].adName,
                     <<metricOf(d[Slice(ws, 3)[j]], ecom), toText(d[Slice(ws, 3)[j]].results)>>)]
         \o <<Piece("scale.tip", "", <<>>)>>
    ELSE <<>>

testSection(d, ps, ecom) ==
    IF Len(ps) > 0
    THEN <<Piece("test.header", "", <<>>), Piece("test.intro", "", <<>>)>>
         \o [j \in 1..Len(Slice(ps, 3)) |->
               Piece("test.potential", d[Slice(ps, 3)[j]].adName,
                     <<toFixed2(d[Slice(ps, 3)[j]].amountSpent), metricOf(d[Slice(ps, 3)[j]], ecom)>>)]
         \o <<Piece("blank", "", <<>>)>>
    ELSE <<>>

\* adSets.filter(...) and, when it is not empty, its sort
winningSets(adSets, ecom, roasAvg, cpaAvg) ==
    LET Keep(g) == IF ecom THEN Gt(g.roas, roasAvg) ELSE Lt(g.cpa, cpaAvg)
        kept == SelectSeq(adSets, Keep)
    IN  StableSort(kept, [p \in Pairs(kept) |->
            IF ecom THEN CmpSign(Sub(kept[p[2]].roas, kept[p[1]].roas))
            ELSE CmpSign(Sub(kept[p[1]].cpa, kept[p[2]].cpa))])

adSetInsights(wsets, ecom) ==
    <<Piece("adsets.header", "", <<>>)>>
    \o (IF Len(wsets) > 0
        THEN <<Piece("adsets.best", wsets[1].name,
                     <<IF ecom THEN toFixed2(wsets[1].roas) ELSE toFixed2(wsets[1].cpa)>>)>>
        ELSE <<Piece("adsets.none", "", <<>>)>>)

creativeInsights(tops, bads) ==
    <<Piece("creatives.header", "", <<>>)>>
    \o (IF Len(tops) > 0
        THEN <<Piece("creatives.best", tops[1].name, <<>>),
               Piece("creatives.advice", "", <<>>)>>
        ELSE IF Len(bads) > 0
        THEN <<Piece("creatives.bad", bads[1].name, <<>>)>>
        ELSE <<>>)
    \o <<Piece("blank", "", <<>>)>>

----------------------------------------------------------------------------
(* analyzeAds as a whole: the local constants in the order the code        *)
(* computes them, and the value the promise resolves with.                 *)

analyzeAds(d) ==
    LET spent    == totalSpent(d)
        revenue  == totalRevenue(d)
        nresults == totalResults(d)
        roasAvg  == avgRoas(spent, revenue)
        cpaAvg   == avgCpa(spent, nresults)
        dominant == dominantResultType(counts(d))
        ecom     == isEcommerce(roasAvg, dominant)
        roasT    == roasThreshold(roasAvg)
        cpaT     == cpaThreshold(cpaAvg)
        sig      == significanceThreshold(cpaAvg, spent, d)
        adSets   == aggregate(d, adSetKeys(d))
        creatives == aggregate(d, creativeKeys(d))
        \* the buckets as the report's in-place sorts leave them
        zs       == sortZombies(d, zombies(d, sig))
        bs       == sortBleeders(d, bleeders(d, sig, ecom, roasT, cpaT), ecom)
        ws       == sortBest(d, winners(d, sig, ecom, roasT, cpaT), ecom)
        ps       == sortBest(d, potentials(d, sig, ecom, roasAvg, cpaAvg), ecom)
        tops     == topCreatives(creatives, sig, ecom, roasAvg, cpaAvg)
        bads     == badCreatives(creatives, sig, ecom, roasT, cpaT)
        wsets    == winningSets(adSets, ecom, roasAvg, cpaAvg)
        markdown ==
            healthSection(spent, nresults, ecom, roasAvg, cpaAvg, cpaT)
            \o <<Piece("plan.header", "", <<>>)>>
            \o killSection(d, zs, bs, ecom)
            \o scaleSection(d, ws, ecom)
            \o testSection(d, ps, ecom)
            \o <<Piece("separator", "", <<>>), Piece("insights.header", "", <<>>)>>
            \o adSetInsights(wsets, ecom)
            \o creativeInsights(tops, bads)
    IN  [locals |->
            [isEcommerce           |-> ecom,
             roasThreshold         |-> roasT,
             cpaThreshold          |-> cpaT,
             significanceThreshold |-> sig,
             adSets     |-> adSets,
             creatives  |-> creatives,
             zombies    |-> zs,
             bleeders   |-> bs,
             winners    |-> ws,
             potentials |-> ps,
             topCreatives |-> tops,
             badCreatives |-> bads,
             winningSets  |-> wsets],
         returned |->
            [markdownReport |-> markdown,
             summary |->
                [totalSpent         |-> spent,
                 totalRevenue       |-> revenue,
                 avgRoas            |-> roasAvg,
                 avgCpa             |-> cpaAvg,
                 totalResults       |-> nresults,
                 dominantResultType |-> dominant]]]

\* the view looking at the ROAS alone
viewIsEcommerceRoasOnly(analysisProp) == Gt(analysisProp.summary.avgRoas, Q(1, 2))

\* AnalysisView: the isEcommerce it derives from the analysis prop
viewIsEcommerce(analysisProp) ==
    Gt(analysisProp.summary.avgRoas, Q(1, 2))
        \/ analysisProp.summary.dominantResultType = "purchase"

----------------------------------------------------------------------------
(* Inputs.  A row is an AdData with the fields analyzeAds reads.           *)

MaxRows == 2

AdRow(spend, nres, cpr, r, type) ==
    [adSetName |-> "SetA", adName |-> "Ad1",
     amountSpent |-> spend, impressions |-> Num(1000), clicks |-> Num(10),
     results |-> nres, costPerResult |-> cpr, roas |-> r, resultType |-> type]

\* Scenario A of the specification: spend 100, no result, ROAS 0, generic
ScenarioA == AdRow(Num(100), Zero, Zero, Zero, "generic")

\* a row within the extractor contract whose ROAS cell reads -1
NegativeRoas == AdRow(Num(100), Num(2), Num(50), Q(-1, 1), "purchase")

\* rows that vary what the context and the thresholds depend on
ContextRows ==
    {AdRow(Num(s), Num(k), Num(50), r, t) :
        s \in {0, 100, 300}, k \in {0, 2}, r \in {Q(1, 2), Num(3)},
        t \in {"purchase", "message", "generic"}}
        \cup {ScenarioA, NegativeRoas}

\* rows that vary what the row-level buckets depend on
SegmentRows ==
    {AdRow(Num(s), Num(k), Num(c), r, t) :
        s \in {100, 1000}, k \in {0, 2}, c \in {30, 70}, r \in {Q(1, 5), Num(3)},
        t \in {"purchase", "message"}} \cup {ScenarioA}

\* a row under another ad-set name and ad name
Named(set, ad, row) == [row EXCEPT !.adSetName = set, !.adName = ad]

\* Scenario B of the specification: two purchase rows, spend 1000 each, ROAS
\* 3.0 and 0.2; the fields the scenario leaves open range over results,
\* costPerResult and the ad name
ScenarioBRecord1 ==
    {Named("SetA", ad, AdRow(Num(1000), Num(k), Num(c), Num(3), "purchase")) :
        ad \in {"Ad1", "Ad2"}, k \in {0, 1, 2}, c \in {0, 500}}

ScenarioBRecord2 ==
    {Named("SetA", ad, AdRow(Num(1000), Num(k), Num(c), Q(1, 5), "purchase")) :
        ad \in {"Ad1", "Ad2"}, k \in {0, 1, 2}, c \in {0, 500}}

ScenarioB == {<<r1, r2>> : r1 \in ScenarioBRecord1, r2 \in ScenarioBRecord2}

\* a row that was never shown and never clicked
Unseen(row) == [row EXCEPT !.impressions = Zero, !.clicks = Zero]

\* the ad-set name and the ad name of a row: plain names, the empty name, a
\* second ad of the same set, names that read as numbers and names that
\* Object.prototype has too
RowNames ==
    {<<"SetA", "Ad1">>, <<"SetA", "Ad2">>, <<"", "">>, <<"7", "12">>,
     <<"12", "7">>, <<"toString", "Ad1">>, <<"SetB", "constructor">>}

\* the figures of a row: Scenario C of the specification has spends 50 and
\* 70 with results 2 and 3
RowFigures ==
    {AdRow(Num(50), Num(2), Num(25), Num(3), "message"),
     AdRow(Num(70), Num(3), Num(23), Q(1, 2), "message"),
     Unseen(AdRow(Zero, Zero, Zero, Zero, "lead"))}

\* rows that vary what the aggregation depends on
AggregateRows == {Named(nm[1], nm[2], row) : nm \in RowNames, row \in RowFigures}

\* the doubles that the cells 0.1, 0.2 and 0.3 parse to
DoubleTenth == [hi |-> 13421772, lo |-> 214748365]

DoubleFifth == [hi |-> 26843545, lo |-> 161061274]

DoubleThreeTenths == [hi |-> 40265318, lo |-> 107374182]

MaxTerms == 3

\* rows of two ad sets with these spends, as far as the running sums of
\* the spend read them
SpendRows ==
    {[adSetName |-> set, amountSpent |-> x] :
        set \in {"SetA", "SetB"}, x \in {DoubleTenth, DoubleFifth, DoubleThreeTenths}}

SpendArrays == UNION {[1..k -> SpendRows] : k \in 0..MaxTerms}

\* rows that vary what the sections of the report depend on: two ads in
\* two ad sets, cheap and good or dear and poor, with and without results
ReportRows ==
    {Named(nm[1], nm[2], AdRow(Num(s), Num(k), q[1], q[2], t)) :
        nm \in {<<"SetA", "Ad1">>, <<"SetB", "Ad2">>},
        s \in {100, 1000}, k \in {0, 2},
        q \in {<<Num(30), Num(3)>>, <<Num(70), Q(1, 5)>>},
        t \in {"purchase", "message"}}

MaxListed == 4

\* rows that fill the displayed lists: three ads without results, spends
\* 100, 100 and 300; four 'message' ads with one result for a spend of 100:
\* costPerResult 70, 200 and 50 at ROAS 0.2, and one of ROAS 3 that turns
\* the account to ecommerce mode
ListRows ==
    {Named("SetA", "Ad1", AdRow(Num(100), Zero, Zero, Zero, "message")),
     Named("SetA", "Ad2", AdRow(Num(100), Zero, Zero, Zero, "message")),
     Named("SetA", "Ad3", AdRow(Num(300), Zero, Zero, Zero, "message")),
     Named("SetA", "Ad1", AdRow(Num(100), Num(1), Num(70), Q(1, 5), "message")),
     Named("SetA", "Ad2", AdRow(Num(100), Num(1), Num(200), Q(1, 5), "message")),
     Named("SetA", "Ad3", AdRow(Num(100), Num(1), Num(50), Q(1, 5), "message")),
     Named("SetA", "Ad4", AdRow(Num(100), Num(1), Num(30), Num(3), "message"))}

ListArrays == UNION {[1..k -> ListRows] : k \in 0..MaxListed}

\* every array of at most MaxRows rows of the pool
Arrays(pool) == UNION {[1..k -> pool] : k \in 0..MaxRows}

----------------------------------------------------------------------------
(* The state machine: one invocation of analyzeAds and the rendering of    *)
(* its result.                                                             *)

Init ==
    /\ pc = "idle"
    /\ data = <<>>
    /\ result = <<>>
    /\ engine = <<>>
    /\ view = <<>>
    /\ heap = {}
    /\ AppInit

\* analyzeAds(data) is called: it runs up to its await of the 100 ms timer
Call(inputs) ==
    /\ pc = "idle"
    /\ \E d \in inputs : data' = d
    /\ pc' = "timer"
    /\ UNCHANGED appVars
    /\ UNCHANGED <<result, engine, view, heap>>

\* the run with the sort by spend applied to data itself, not to the
\* filtered copy
ResumeSortsData ==
    /\ pc = "timer"
    /\ LET run == analyzeAds(data)
       IN  /\ result' = <<run.returned>>
           /\ engine' = <<run.locals>>
    /\ data' = StableSort(data, [p \in Pairs(data) |->
                  CmpSign(Sub(data[p[2]].amountSpent, data[p[1]].amountSpent))])
    /\ heap' = inheritedWritten(heap, data)
    /\ pc' = "resolved"
    /\ UNCHANGED appVars
    /\ UNCHANGED view

\* the timer fires: the rest of analyzeAds runs to its return
Resume ==
    /\ pc = "timer"
    /\ LET run == analyzeAds(data)
       IN  /\ result' = <<run.returned>>
           /\ engine' = <<run.locals>>
    /\ heap' = inheritedWritten(heap, data)
    /\ pc' = "resolved"
    /\ UNCHANGED appVars
    /\ UNCHANGED <<data, view>>

\* AnalysisView renders the resolved analysis
Render ==
    /\ pc = "resolved"
    /\ view' = <<[isEcommerce |-> viewIsEcommerce(result[1])]>>
    /\ pc' = "rendered"
    /\ UNCHANGED appVars
    /\ UNCHANGED <<data, result, engine, heap>>

\* onReset: back to the start
Reset ==
    /\ pc = "rendered"
    /\ pc' = "idle"
    /\ UNCHANGED appVars
    /\ data' = <<>>
    /\ result' = <<>>
    /\ engine' = <<>>
    /\ view' = <<>>
    /\ UNCHANGED heap

CallContext == Call(Arrays(ContextRows))

CallSegment == Call(Arrays(SegmentRows))

Next == CallContext \/ Resume \/ Render \/ Reset

Spec == Init /\ [][Next]_vars

NextSeg == CallSegment \/ Resume \/ Render \/ Reset

SpecSeg == Init /\ [][NextSeg]_vars

CallScenarioB == Call(ScenarioB)

NextB == CallScenarioB \/ Resume \/ Render \/ Reset

SpecB == Init /\ [][NextB]_vars

CallAggregate == Call(Arrays(AggregateRows))

NextAgg == CallAggregate \/ Resume \/ Render \/ Reset

SpecAgg == Init /\ [][NextAgg]_vars

CallReport == Call(Arrays(ReportRows))

NextReport == CallReport \/ Resume \/ Render \/ Reset

SpecReport == Init /\ [][NextReport]_vars

CallList == Call(ListArrays)

NextList == CallList \/ Resume \/ Render \/ Reset

SpecList == Init /\ [][NextList]_vars

----------------------------------------------------------------------------
(* Two invocations of analyzeAds on the same array, one after the other or *)
(* the second while the first is suspended in its await.  pc, result and   *)
(* engine hold one entry per invocation.  Both timers run 100 ms, so the   *)
(* first invocation resumes first.                                         *)

InitTwice ==
    /\ pc = <<"idle", "idle">>
    /\ data = <<>>
    /\ result = <<<<>>, <<>>>>
    /\ engine = <<<<>>, <<>>>>
    /\ view = <<>>
    /\ heap = {}
    /\ AppInit

CallFirst ==
    /\ pc = <<"idle", "idle">>
    /\ \E d \in Arrays(AggregateRows) : data' = d
    /\ pc' = <<"timer", "idle">>
    /\ UNCHANGED appVars
    /\ UNCHANGED <<result, engine, view, heap>>

\* the second invocation gets the array the first one got
CallSecond ==
    /\ pc[1] # "idle" /\ pc[2] = "idle"
    /\ pc' = [pc EXCEPT ![2] = "timer"]
    /\ UNCHANGED appVars
    /\ UNCHANGED <<data, result, engine, view, heap>>

\* the first invocation with a sort of data itself, by spend, in the place
\* of the sorts of the filtered copies
ResumeFirstSortsData ==
    /\ pc[1] = "timer"
    /\ LET run == analyzeAds(data)
       IN  /\ result' = [result EXCEPT ![1] = <<run.returned>>]
           /\ engine' = [engine EXCEPT ![1] = <<run.locals>>]
    /\ data' = StableSort(data, [p \in Pairs(data) |->
                  CmpSign(Sub(data[p[2]].amountSpent, data[p[1]].amountSpent))])
    /\ heap' = inheritedWritten(heap, data)
    /\ pc' = [pc EXCEPT ![1] = "resolved"]
    /\ UNCHANGED appVars
    /\ UNCHANGED view

\* the first timer fires: the first invocation runs to its return; it
\* filters and maps data into new arrays and sorts those
ResumeFirst ==
    /\ pc[1] = "timer"
    /\ LET run == analyzeAds(data)
       IN  /\ result' = [result EXCEPT ![1] = <<run.returned>>]
           /\ engine' = [engine EXCEPT ![1] = <<run.locals>>]
    /\ heap' = inheritedWritten(heap, data)
    /\ pc' = [pc EXCEPT ![1] = "resolved"]
    /\ UNCHANGED appVars
    /\ UNCHANGED <<data, view>>

ResumeSecond ==
    /\ pc[1] = "resolved" /\ pc[2] = "timer"
    /\ LET run == analyzeAds(data)
       IN  /\ result' = [result EXCEPT ![2] = <<run.returned>>]
           /\ engine' = [engine EXCEPT ![2] = <<run.locals>>]
    /\ heap' = inheritedWritten(heap, data)
    /\ pc' = [pc EXCEPT ![2] = "resolved"]
    /\ UNCHANGED appVars
    /\ UNCHANGED <<data, view>>

NextTwice == CallFirst \/ CallSecond \/ ResumeFirst \/ ResumeSecond

SpecTwice == InitTwice /\ [][NextTwice]_vars

\* the aggregation by ad set, applied to rows given from the start
InitSum ==
    /\ pc = "idle"
    /\ data \in SpendArrays
    /\ result = <<>>
    /\ engine = <<>>
    /\ view = <<>>
    /\ heap = {}
    /\ AppInit

AggregateSpend ==
    /\ pc = "idle"
    /\ engine' = <<[spend |-> groupSpends(data)]>>
    /\ pc' = "aggregated"
    /\ UNCHANGED appVars
    /\ UNCHANGED <<data, result, view, heap>>

NextSum == AggregateSpend

SpecSum == InitSum /\ [][NextSum]_vars

----------------------------------------------------------------------------
(* Properties.  The expected values are computed from data by definitions  *)
(* of their own, not by the operators of the engine.                       *)

Resolved == result # <<>>

Summary == result[1].summary

Locals == engine[1]

\* the sum f[1] + ... + f[n]
RECURSIVE Sigma(_, _)
Sigma(f, n) == IF n = 0 THEN Zero ELSE Add(Sigma(f, n - 1), f[n])

SumSpent == Sigma([i \in 1..Len(data) |-> data[i].amountSpent], Len(data))

SumResults == Sigma([i \in 1..Len(data) |-> data[i].results], Len(data))

SumRevenue ==
    Sigma([i \in 1..Len(data) |-> Mul(data[i].amountSpent, data[i].roas)], Len(data))

\* x * y = z for finite x
TimesIs(x, y, z) == IsFinite(x) /\ x.n * y.n * z.d = z.n * x.d * y.d

InBucket(bucket, i) == \E j \in 1..Len(bucket) : bucket[j] = i

\* C1: for a non-empty record list, summary.totalSpent is the sum of
\* amountSpent and summary.totalResults the sum of results over all rows,
\* each row counted once.
C1_TotalsAreSums ==
    (Resolved /\ Len(data) > 0) =>
        /\ Summary.totalSpent = SumSpent
        /\ Summary.totalResults = SumResults

C1_Witness ==
    /\ Resolved
    /\ Len(data) = 2
    /\ data[1].amountSpent.n > 0 /\ data[2].amountSpent.n > 0
    /\ data[1].results.n > 0 /\ data[2].results.n > 0

\* C2: summary.avgRoas is totalRevenue / totalSpent when totalSpent > 0 and
\* 0 when totalSpent = 0; summary.avgCpa is totalSpent / totalResults when
\* totalResults > 0 and 0 otherwise; no summary figure is the result of a
\* division by zero.
C2_AveragesGuarded ==
    Resolved =>
        /\ IF SumSpent.n > 0 THEN TimesIs(Summary.avgRoas, SumSpent, SumRevenue)
           ELSE Summary.avgRoas = Zero
        /\ IF SumResults.n > 0 THEN TimesIs(Summary.avgCpa, SumResults, SumSpent)
           ELSE Summary.avgCpa = Zero
        /\ IsFinite(Summary.avgRoas) /\ IsFinite(Summary.avgCpa)
        /\ IsFinite(Summary.totalSpent) /\ IsFinite(Summary.totalRevenue)
        /\ IsFinite(Summary.totalResults)

C2_Witness ==
    /\ Resolved
    /\ Len(data) = 2
    /\ SumSpent = Zero
    /\ SumResults.n > 0

\* the result types of data, their counts and first rows
TypesOf(d) == {d[i].resultType : i \in 1..Len(d)}

CountOf(d, t) == Cardinality({i \in 1..Len(d) : d[i].resultType = t})

FirstRowOf(d, t) ==
    CHOOSE i \in 1..Len(d) :
        d[i].resultType = t /\ \A j \in 1..(i - 1) : d[j].resultType # t

MostFrequent(d) == {t \in TypesOf(d) : \A u \in TypesOf(d) : CountOf(d, u) <= CountOf(d, t)}

C4_IsEcommerceRule ==
    Resolved =>
        /\ Locals.isEcommerce <=>
              (2 * Summary.avgRoas.n > Summary.avgRoas.d
                   \/ Summary.dominantResultType = "purchase")
        /\ (data = <<ScenarioA>> => ~Locals.isEcommerce)

\* the boundary: an average ROAS of exactly 0.5 without purchases
C4_Witness ==
    /\ Resolved
    /\ Len(data) = 2
    /\ Summary.avgRoas = Q(1, 2)
    /\ Summary.dominantResultType # "purchase"
    /\ ~Locals.isEcommerce

\* C5: the isEcommerce that AnalysisView derives from the returned summary
\* equals the isEcommerce the engine used in the same run.
C5_ViewAgreesWithEngine ==
    pc = "rendered" => view[1].isEcommerce = Locals.isEcommerce

C5_Witness ==
    /\ pc = "rendered"
    /\ view[1].isEcommerce
    /\ 2 * Summary.avgRoas.n <= Summary.avgRoas.d

\* the record-extractor contract on the numeric fields
ContractHolds == \A i \in 1..Len(data) : data[i].amountSpent.n >= 0 /\ data[i].results.n >= 0

\* C6 as stated: for every record list within the extractor contract the
\* thresholds satisfy roasGood >= roasBad and cpaGood <= cpaBad.
C6_GoodSideIsBetter ==
    (Resolved /\ ContractHolds) =>
        /\ Ge(Locals.roasThreshold.good, Locals.roasThreshold.bad)
        /\ Le(Locals.cpaThreshold.good, Locals.cpaThreshold.bad)

\* C7: the significance floor is avgCpa when avgCpa > 0 and otherwise
\* totalSpent / max(number of rows, 1); 0 for no rows, never a division by
\* zero.
C7_SignificanceFloor ==
    Resolved =>
        LET sig == Locals.significanceThreshold
            rows == IF Len(data) > 1 THEN Len(data) ELSE 1
        IN  /\ IsFinite(sig)
            /\ IF SumResults.n > 0 /\ SumSpent.n > 0
               THEN TimesIs(sig, SumResults, SumSpent)
               ELSE TimesIs(sig, Num(rows), SumSpent)
            /\ (data = <<>> => sig = Zero)

C7_Witness ==
    /\ Resolved
    /\ Len(data) = 2
    /\ SumResults = Zero
    /\ Locals.significanceThreshold.n > 0
    /\ data[1].amountSpent # data[2].amountSpent

\* a > b, a >= b on finite numbers, by cross-multiplication
More(a, b) == a.n * b.d > b.n * a.d

AtLeast(a, b) == a.n * b.d >= b.n * a.d

\* C8: a row is in zombies exactly when results = 0 and amountSpent is more
\* than half the significance floor; for Scenario A alone zombies holds the
\* row and bleeders, winners and potentials are empty.
C8_ZombiesRule ==
    Resolved =>
        /\ \A i \in 1..Len(data) :
              InBucket(Locals.zombies, i) <=>
                  /\ data[i].results.n = 0
                  /\ More(Mul(Num(2), data[i].amountSpent), Locals.significanceThreshold)
        /\ (data = <<ScenarioA>> =>
               /\ Locals.zombies = <<1>>
               /\ Locals.bleeders = <<>>
               /\ Locals.winners = <<>>
               /\ Locals.potentials = <<>>)

C8_Witness ==
    /\ Resolved
    /\ Len(data) = 2
    /\ data[1].results = Zero /\ data[2].results = Zero
    /\ Locals.zombies = <<2>>

\* C9: a row is in bleeders exactly when results > 0, amountSpent is at
\* least the significance floor and, in ecommerce mode, roas < roasBad or,
\* in volume mode, costPerResult > cpaBad.
C9_BleedersRule ==
    Resolved =>
        \A i \in 1..Len(data) :
            InBucket(Locals.bleeders, i) <=>
                /\ data[i].results.n > 0
                /\ AtLeast(data[i].amountSpent, Locals.significanceThreshold)
                /\ IF Locals.isEcommerce
                   THEN More(Locals.roasThreshold.bad, data[i].roas)
                   ELSE More(data[i].costPerResult, Locals.cpaThreshold.bad)

C9_Witness ==
    /\ Resolved
    /\ Len(data) = 2
    /\ ~Locals.isEcommerce
    /\ InBucket(Locals.bleeders, 2)
    /\ ~InBucket(Locals.bleeders, 1)
    /\ data[1].results.n > 0

\* C10: a row is in winners exactly when results > 0, amountSpent is at
\* least the significance floor and, in ecommerce mode, roas >= roasGood or,
\* in volume mode, costPerResult <= cpaGood.
C10_WinnersRule ==
    Resolved =>
        \A i \in 1..Len(data) :
            InBucket(Locals.winners, i) <=>
                /\ data[i].results.n > 0
                /\ AtLeast(data[i].amountSpent, Locals.significanceThreshold)
                /\ IF Locals.isEcommerce
                   THEN AtLeast(data[i].roas, Locals.roasThreshold.good)
                   ELSE AtLeast(Locals.cpaThreshold.good, data[i].costPerResult)

C10_Witness ==
    /\ Resolved
    /\ Len(data) = 2
    /\ Locals.isEcommerce
    /\ InBucket(Locals.winners, 1)
    /\ ~InBucket(Locals.winners, 2)
    /\ data[2].results.n > 0

\* C11: a row is in potentials exactly when results > 0, amountSpent is
\* below the significance floor and, in ecommerce mode, roas >= avgRoas or,
\* in volume mode, costPerResult <= avgCpa.
C11_PotentialsRule ==
    Resolved =>
        \A i \in 1..Len(data) :
            InBucket(Locals.potentials, i) <=>
                /\ data[i].results.n > 0
                /\ More(Locals.significanceThreshold, data[i].amountSpent)
                /\ IF Locals.isEcommerce
                   THEN AtLeast(data[i].roas, Summary.avgRoas)
                   ELSE AtLeast(Summary.avgCpa, data[i].costPerResult)

\* a cheap row under the floor next to a row with results above it
C11_Witness ==
    /\ Resolved
    /\ Len(data) = 2
    /\ ~Locals.isEcommerce
    /\ InBucket(Locals.potentials, 1)
    /\ ~InBucket(Locals.potentials, 2)
    /\ data[2].results.n > 0
    /\ AtLeast(Summary.avgCpa, data[2].costPerResult)

\* C12 as stated: for every record list within the extractor contract the
\* four row-level buckets are pairwise disjoint: no row is in zombies
\* together with bleeders, winners or potentials, and no row is in more
\* than one of bleeders, winners and potentials.
C12_BucketsDisjoint ==
    (Resolved /\ ContractHolds) =>
        \A i \in 1..Len(data) :
            /\ InBucket(Locals.zombies, i) =>
                  /\ ~InBucket(Locals.bleeders, i)
                  /\ ~InBucket(Locals.winners, i)
                  /\ ~InBucket(Locals.potentials, i)
            /\ ~(InBucket(Locals.bleeders, i) /\ InBucket(Locals.winners, i))
            /\ ~(InBucket(Locals.bleeders, i) /\ InBucket(Locals.potentials, i))
            /\ ~(InBucket(Locals.winners, i) /\ InBucket(Locals.potentials, i))

\* the input is an instance of Scenario B
IsScenarioB == Resolved /\ data \in ScenarioB

\* C13 as stated: for Scenario B, whatever the remaining fields, avgRoas is
\* 1.6, isEcommerce is true, record 2 is in bleeders and record 1 in
\* winners.
C13_ScenarioB ==
    IsScenarioB =>
        /\ Summary.avgRoas = Q(8, 5)
        /\ Locals.isEcommerce
        /\ InBucket(Locals.bleeders, 2)
        /\ InBucket(Locals.winners, 1)

\* C13 amended: for Scenario B, whatever the remaining fields, avgRoas is
\* 1.6 and isEcommerce is true; when both records have results > 0 record 2
\* is in bleeders and record 1 in winners; a record with results = 0 is in
\* neither of the two buckets.
C13_ScenarioBWithResults ==
    IsScenarioB =>
        /\ Summary.avgRoas = Q(8, 5)
        /\ Locals.isEcommerce
        /\ (data[1].results.n > 0 /\ data[2].results.n > 0) =>
              /\ InBucket(Locals.bleeders, 2)
              /\ InBucket(Locals.winners, 1)
        /\ \A i \in 1..2 :
              data[i].results.n = 0 =>
                  /\ ~InBucket(Locals.bleeders, i)
                  /\ ~InBucket(Locals.winners, i)

\* one result each: the floor is avgCpa = 1000, exactly the spend
C13_Witness ==
    /\ IsScenarioB
    /\ data[1].results = Num(1) /\ data[2].results = Num(1)
    /\ Locals.significanceThreshold = Num(1000)
    /\ Locals.bleeders = <<2>>
    /\ Locals.winners = <<1>>

\* the grouping keys of the rows, by ad-set name and by ad name
SetKey(i) == IF data[i].adSetName = "" THEN "Unknown AdSet" ELSE data[i].adSetName

AdKey(i) == IF data[i].adName = "" THEN "Unknown Creative" ELSE data[i].adName

SetKeyOfRows == [i \in 1..Len(data) |-> SetKey(i)]

AdKeyOfRows == [i \in 1..Len(data) |-> AdKey(i)]

\* the first row whose key is k
FirstWithKey(keys, k) ==
    CHOOSE i \in 1..Len(keys) : keys[i] = k /\ \A j \in 1..(i - 1) : keys[j] # k

\* groups holds one group per key of keys, in the order the keys first occur
OneGroupPerKeyInOrder(groups, keys) ==
    /\ {groups[j].name : j \in 1..Len(groups)} = {keys[i] : i \in 1..Len(keys)}
    /\ \A a, b \in 1..Len(groups) :
          a < b => FirstWithKey(keys, groups[a].name) < FirstWithKey(keys, groups[b].name)

\* C14 as stated: aggregate returns exactly one group per distinct key of
\* the rows, in first-seen key order, whatever the text of the key.
C14_GroupsFollowKeys ==
    Resolved =>
        /\ OneGroupPerKeyInOrder(Locals.adSets, SetKeyOfRows)
        /\ OneGroupPerKeyInOrder(Locals.creatives, AdKeyOfRows)

\* rows in the order perm
Permuted(rows, perm) == [i \in 1..Len(rows) |-> rows[perm[i]]]

\* C15 as stated: aggregation totals are independent of row order: under
\* every permutation of the rows each group key has the same summed spend.
C15_TotalsIgnoreRowOrder ==
    pc = "aggregated" =>
        \A perm \in Permutations(1..Len(data)) :
            groupSpends(Permuted(data, perm)) = engine[1].spend

\* the sum of field values over the rows whose key is k
SumOver(keys, k, values) ==
    Sigma([i \in 1..Len(data) |-> IF keys[i] = k THEN values[i] ELSE Zero], Len(data))

\* the sums and the ratios of group g are those of the rows with its key
GroupIsOfItsRows(g, keys) ==
    LET spend == SumOver(keys, g.name, [i \in 1..Len(data) |-> data[i].amountSpent])
        revenue == SumOver(keys, g.name,
                       [i \in 1..Len(data) |-> Mul(data[i].amountSpent, data[i].roas)])
        results == SumOver(keys, g.name, [i \in 1..Len(data) |-> data[i].results])
        impressions == SumOver(keys, g.name, [i \in 1..Len(data) |-> data[i].impressions])
        clicks == SumOver(keys, g.name, [i \in 1..Len(data) |-> data[i].clicks])
    IN  /\ g.spend = spend /\ g.revenue = revenue /\ g.results = results
        /\ g.impressions = impressions /\ g.clicks = clicks
        /\ IF spend = Zero THEN g.roas = Zero ELSE TimesIs(g.roas, spend, revenue)
        /\ IF results = Zero THEN g.cpa = Zero ELSE TimesIs(g.cpa, results, spend)
        /\ IF impressions = Zero THEN g.ctr = Zero
           ELSE TimesIs(g.ctr, impressions, Mul(clicks, Num(100)))

\* Scenario C of the specification: two rows of SetA, spends 50 and 70,
\* results 2 and 3
IsScenarioC ==
    /\ Resolved
    /\ Len(data) = 2
    /\ data[1].adSetName = "SetA" /\ data[2].adSetName = "SetA"
    /\ data[1].amountSpent = Num(50) /\ data[2].amountSpent = Num(70)
    /\ data[1].results = Num(2) /\ data[2].results = Num(3)

\* C16: the ratios of every aggregated group come from the finished sums of
\* all its rows, with zero-guards: roas = revenue / spend (0 for spend 0),
\* cpa = spend / results (0 for results 0), ctr = clicks / impressions x 100
\* (0 for impressions 0); Scenario C gives one group SetA with spend 120,
\* results 5 and cpa 24.
C16_RatiosFromSums ==
    Resolved =>
        /\ \A j \in 1..Len(Locals.adSets) :
              GroupIsOfItsRows(Locals.adSets[j], SetKeyOfRows)
        /\ \A j \in 1..Len(Locals.creatives) :
              GroupIsOfItsRows(Locals.creatives[j], AdKeyOfRows)
        /\ IsScenarioC =>
              /\ Len(Locals.adSets) = 1
              /\ Locals.adSets[1].name = "SetA"
              /\ Locals.adSets[1].spend = Num(120)
              /\ Locals.adSets[1].results = Num(5)
              /\ Locals.adSets[1].cpa = Num(24)

C16_Witness ==
    /\ IsScenarioC
    /\ Len(Locals.adSets) = 1
    /\ Locals.adSets[1].cpa = Num(24)
    /\ Len(Locals.creatives) = 2

\* both invocations have returned
BothResolved == pc = <<"resolved", "resolved">>

C18_EmptyList ==
    /\ (pc = "timer" /\ data = <<>>) => ENABLED Resume
    /\ (Resolved /\ data = <<>>) =>
          /\ Summary = [totalSpent |-> Zero, totalRevenue |-> Zero,
                        avgRoas |-> Zero, avgCpa |-> Zero, totalResults |-> Zero,
                        dominantResultType |-> "generic"]
          /\ Locals.zombies = <<>> /\ Locals.bleeders = <<>>
          /\ Locals.winners = <<>> /\ Locals.potentials = <<>>
          /\ Locals.adSets = <<>> /\ Locals.creatives = <<>>
          /\ Locals.topCreatives = <<>> /\ Locals.badCreatives = <<>>
          /\ Locals.winningSets = <<>>

C18_Witness ==
    /\ pc = "resolved"
    /\ data = <<>>
    /\ Len(result) = 1
    /\ Summary.dominantResultType = "generic"

\* the narrative of the finished invocation, piece by piece
Report == result[1].markdownReport

HasPiece(id) == \E j \in 1..Len(Report) : Report[j].id = id

\* C19 as stated: for every record list the narrative has its kill, scale,
\* test, ad-set and creative sections, and a section is never left without
\* a line: it lists its entries or says that there are none.
C19_NoSectionOmitted ==
    Resolved =>
        /\ HasPiece("kill.header")
        /\ HasPiece("scale.header")
        /\ HasPiece("test.header")
        /\ HasPiece("adsets.header")
        /\ HasPiece("adsets.best") \/ HasPiece("adsets.none")
        /\ HasPiece("creatives.header")
        /\ HasPiece("creatives.best") \/ HasPiece("creatives.bad")

\* the section a piece belongs to, 0 for the title, the separators and the
\* headers of the two parts
SectionOf(id) ==
    CASE id \in {"health.header", "health.totals", "health.noResults",
                 "health.avgRoas", "health.breakEven", "health.avgCpa",
                 "health.expensive"} -> 1
      [] id \in {"kill.header", "kill.intro", "kill.zombies.header", "kill.zombie",
                 "kill.bleeders.header", "kill.bleeder"} -> 2
      [] id \in {"scale.header", "scale.intro", "scale.winner", "scale.tip"} -> 3
      [] id \in {"test.header", "test.intro", "test.potential"} -> 4
      [] id \in {"adsets.header", "adsets.best", "adsets.none"} -> 5
      [] id \in {"creatives.header", "creatives.best", "creatives.advice",
                 "creatives.bad"} -> 6
      [] OTHER -> 0

\* C20: the sections of the narrative come in the order health summary,
\* kill list, scale list, test list, ad-set insights, creative insights,
\* each section in one piece under its header; inside the kill list every
\* zombie line comes before every bleeder line.
C20_SectionsInOrder ==
    Resolved =>
        /\ \A a, b \in 1..Len(Report) :
              (a < b /\ SectionOf(Report[a].id) # 0 /\ SectionOf(Report[b].id) # 0)
                  => SectionOf(Report[a].id) <= SectionOf(Report[b].id)
        /\ \A a, b \in 1..Len(Report) :
              (a < b /\ SectionOf(Report[a].id) = SectionOf(Report[b].id))
                  => Report[b].id \notin {"health.header", "kill.header", "scale.header",
                                          "test.header", "adsets.header",
                                          "creatives.header"}
        /\ \A a, b \in 1..Len(Report) :
              (Report[a].id = "kill.zombie" /\ Report[b].id = "kill.bleeder") => a < b
        /\ HasPiece("health.header")

\* a narrative with a zombie line and a bleeder line in its kill list
C20_Witness ==
    /\ Resolved
    /\ HasPiece("kill.zombie")
    /\ HasPiece("kill.bleeder")
    /\ HasPiece("adsets.header")
    /\ HasPiece("creatives.header")

\* C21 as stated: every ad set the engine classifies as good, the one named
\* as the best in the ad-set insights included, has results > 0 and, in
\* ecommerce mode, roas > avgRoas x 1.2 or, in volume mode, cpa < cpaGood.
C21_GoodAdSetsRule ==
    Resolved =>
        \A j \in 1..Len(Locals.winningSets) :
            LET g == Locals.winningSets[j]
            IN  /\ g.results.n > 0
                /\ IF Locals.isEcommerce
                   THEN More(g.roas, Mul(Summary.avgRoas, Q(12, 10)))
                   ELSE More(Locals.cpaThreshold.good, g.cpa)

\* the lines of one displayed list, in the order of the narrative
LinesOf(id) ==
    LET Is(p) == p.id = id
    IN  SelectSeq(Report, Is)

\* the lines are at most 5, one per entry from the head of the bucket on,
\* and name the ad of that entry
ShowsHeadOf(lines, bucket) ==
    /\ Len(lines) <= 5
    /\ Len(lines) <= Len(bucket)
    /\ Len(bucket) > 0 => Len(lines) > 0
    /\ \A j \in 1..Len(lines) : lines[j].name = data[bucket[j]].adName

\* the bucket is in descending order of metric, rows of equal metric in
\* their input order
SortedDown(bucket, metric) ==
    \A a, b \in 1..Len(bucket) :
        a < b =>
            /\ AtLeast(metric[bucket[a]], metric[bucket[b]])
            /\ metric[bucket[a]] = metric[bucket[b]] => bucket[a] < bucket[b]

SpendOfRows == [i \in 1..Len(data) |-> data[i].amountSpent]

\* the higher the better: the ROAS, or the costPerResult negated
GoodnessOfRows ==
    [i \in 1..Len(data) |->
        IF Locals.isEcommerce THEN data[i].roas ELSE Sub(Zero, data[i].costPerResult)]

BadnessOfRows == [i \in 1..Len(data) |-> Sub(Zero, GoodnessOfRows[i])]

\* C22: every displayed list has at most 5 lines, which are the first
\* entries of the bucket sorted by its metric (zombies by spend descending,
\* bleeders worst first, winners and potentials best first), entries of
\* equal metric in their input order.
C22_ListsShowSortedHead ==
    Resolved =>
        /\ SortedDown(Locals.zombies, SpendOfRows)
        /\ SortedDown(Locals.bleeders, BadnessOfRows)
        /\ SortedDown(Locals.winners, GoodnessOfRows)
        /\ SortedDown(Locals.potentials, GoodnessOfRows)
        /\ ShowsHeadOf(LinesOf("kill.zombie"), Locals.zombies)
        /\ ShowsHeadOf(LinesOf("kill.bleeder"), Locals.bleeders)
        /\ ShowsHeadOf(LinesOf("scale.winner"), Locals.winners)
        /\ ShowsHeadOf(LinesOf("test.potential"), Locals.potentials)

\* four zombies of which the largest is the last row: the list is cut
\* after a sort that moved rows and kept a tie in input order
C22_Witness ==
    /\ Resolved
    /\ Len(Locals.zombies) = 4
    /\ Locals.zombies[1] = 4
    /\ data[1].amountSpent = data[2].amountSpent
    /\ data[1].adName # data[2].adName
    /\ Len(LinesOf("kill.zombie")) = 3

\* C23: analyzeAds leaves its input as it was: the step from the await to
\* the return keeps the caller's array, its rows, their order and their
\* field values.
C23_InputUnchanged == [][pc = "timer" => data' = data]_vars

\* a finished run whose zombie list was sorted into another order than the
\* order of the rows
C23_Witness ==
    /\ pc = "resolved"
    /\ Len(Locals.zombies) >= 2
    /\ Locals.zombies[1] > Locals.zombies[2]
    /\ data[Locals.zombies[1]].amountSpent # data[Locals.zombies[2]].amountSpent


----------------------------------------------------------------------------
(* The narrative generator, analyzeAdsWithGemini                           *)
(* (src/services/geminiService.ts): the summary it computes before its     *)
(* request to the model, and the result it returns after it.               *)

\* totalRevenue / totalSpent || 0: NaN and 0 are falsy
geminiAvgRoas(spent, revenue) ==
    LET q == Div(revenue, spent)
    IN  IF IsNaN(q) \/ NumEq(q, Zero) THEN Zero ELSE q

\* data.map(d => d.resultType)
resultTypes(d) == [i \in 1..Len(d) |-> d[i].resultType]

\* resultTypes.filter(v => v === t).length
typeCount(types, t) == Cardinality({i \in 1..Len(types) : types[i] = t})

\* resultTypes.sort(by count, ascending).pop() || 'generic': the sort is
\* stable, pop takes the last element, and pop of the empty array is
\* undefined
geminiDominantResultType(types) ==
    LET sorted == StableSort(types, [p \in Pairs(types) |->
                      Sign(typeCount(types, types[p[1]])
                               - typeCount(types, types[p[2]]))])
    IN  IF Len(types) = 0 THEN "generic" ELSE sorted[Len(types)]

geminiIsEcommerce(roasAvg, dominant) ==
    Gt(roasAvg, Q(1, 2)) \/ dominant = "purchase"

\* what response.text can be: a text or nothing
ResponseTexts == {"", "text"}

\* response.text || the fallback sentence
reportText(text) == IF text = "" THEN "fallback" ELSE text

\* the constants analyzeAdsWithGemini computes before its request: the
\* summary it will return, and isEcommerce
geminiSummary(d) ==
    LET spent    == totalSpent(d)
        revenue  == totalRevenue(d)
        nresults == totalResults(d)
        roasAvg  == geminiAvgRoas(spent, revenue)
        cpaAvg   == avgCpa(spent, nresults)
        dominant == geminiDominantResultType(resultTypes(d))
    IN  [isEcommerce |-> geminiIsEcommerce(roasAvg, dominant),
         summary |->
            [totalSpent         |-> spent,
             totalRevenue       |-> revenue,
             avgRoas            |-> roasAvg,
             avgCpa             |-> cpaAvg,
             totalResults       |-> nresults,
             dominantResultType |-> dominant]]

\* the run of analyzeAdsWithGemini whose request was answered with text
analyzeAdsWithGemini(d, text) ==
    [locals |-> [isEcommerce |-> geminiSummary(d).isEcommerce],
     returned |->
        [markdownReport |-> reportText(text),
         summary |-> geminiSummary(d).summary]]

\* record lists of up to four rows of two result types, at a ROAS under
\* and over 0.5
MaxRecords == 4

MixRows ==
    {AdRow(Num(100), Num(2), Num(50), r, t) :
        r \in {Q(1, 5), Num(3)}, t \in {"purchase", "message"}}

MixArrays == UNION {[1..k -> MixRows] : k \in 0..MaxRecords}

(* analyzeAds and analyzeAdsWithGemini called on the same record list: the *)
(* first entry of pc, result and engine is the invocation of analyzeAds,   *)
(* the second that of analyzeAdsWithGemini.                                *)

InitBoth ==
    /\ pc = <<"idle", "idle">>
    /\ data = <<>>
    /\ result = <<<<>>, <<>>>>
    /\ engine = <<<<>>, <<>>>>
    /\ view = <<>>
    /\ heap = {}
    /\ AppInit

CallAnalyzeAds ==
    /\ pc = <<"idle", "idle">>
    /\ \E d \in MixArrays : data' = d
    /\ pc' = <<"timer", "idle">>
    /\ UNCHANGED appVars
    /\ UNCHANGED <<result, engine, view, heap>>

ResumeAnalyzeAds ==
    /\ pc[1] = "timer"
    /\ LET run == analyzeAds(data)
       IN  /\ result' = [result EXCEPT ![1] = <<run.returned>>]
           /\ engine' = [engine EXCEPT ![1] = <<run.locals>>]
    /\ heap' = inheritedWritten(heap, data)
    /\ pc' = [pc EXCEPT ![1] = "resolved"]
    /\ UNCHANGED appVars
    /\ UNCHANGED <<data, view>>

\* analyzeAdsWithGemini(data) is called with an API key in the environment:
\* it runs up to its await of the model's answer
CallGemini ==
    /\ pc[1] # "idle" /\ pc[2] = "idle"
    /\ pc' = [pc EXCEPT ![2] = "generating"]
    /\ UNCHANGED appVars
    /\ UNCHANGED <<data, result, engine, view, heap>>

\* the call without an API key: it throws at once
CallGeminiNoKey ==
    /\ pc[1] # "idle" /\ pc[2] = "idle"
    /\ pc' = [pc EXCEPT ![2] = "rejected"]
    /\ UNCHANGED appVars
    /\ UNCHANGED <<data, result, engine, view, heap>>

\* the model answers: the function returns the report and the summary
GeminiResponds ==
    /\ pc[2] = "generating"
    /\ \E text \in ResponseTexts :
          LET run == analyzeAdsWithGemini(data, text)
          IN  /\ result' = [result EXCEPT ![2] = <<run.returned>>]
              /\ engine' = [engine EXCEPT ![2] = <<run.locals>>]
    /\ pc' = [pc EXCEPT ![2] = "resolved"]
    /\ UNCHANGED appVars
    /\ UNCHANGED <<data, view, heap>>

\* the request fails: the catch block throws
GeminiFails ==
    /\ pc[2] = "generating"
    /\ pc' = [pc EXCEPT ![2] = "rejected"]
    /\ UNCHANGED appVars
    /\ UNCHANGED <<data, result, engine, view, heap>>

NextBoth ==
    \/ CallAnalyzeAds \/ ResumeAnalyzeAds
    \/ CallGemini \/ CallGeminiNoKey \/ GeminiResponds \/ GeminiFails

SpecBoth == InitBoth /\ [][NextBoth]_vars

\* C24: for every record list, analyzeAdsWithGemini computes the
\* dominantResultType and the isEcommerce that analyzeAds computes for the
\* same records
C24_SameContext ==
    pc = <<"resolved", "resolved">> =>
        /\ result[2][1].summary.dominantResultType
               = result[1][1].summary.dominantResultType
        /\ engine[2][1].isEcommerce = engine[1][1].isEcommerce


\* C25: analyzeAds has no suspension point between its call and its result:
\* no other invocation starts while one is under way
C25_NoSuspensionPoint ==
    ~(pc[1] = "timer" /\ pc[2] # "idle")


\* C27: a creative whose summed results are 0 is not among the top
\* creatives, so it is never the one the narrative names as the best
C27_BestCreativeHasResults ==
    Resolved =>
        \A j \in 1..Len(Locals.topCreatives) :
            Locals.topCreatives[j].results.n > 0


----------------------------------------------------------------------------
(* The record extractor, parseExcelFile (src/services/excelService.ts).    *)
(* A file is what the FileReader and the XLSX library make of it: whether  *)
(* the read fails, whether the workbook can be read, and the first sheet   *)
(* as its header row (at most one, the first row of the sheet) and the     *)
(* rows under it.  The header says whether a spend column was found and    *)
(* which result type the header of the results column stands for.  The     *)
(* cells of a row are numbers, which parseNumber returns as they are.      *)

SheetRow(campaign, ad, spend, nres, r) ==
    [campaign |-> campaign, adSet |-> "SetA", ad |-> ad,
     spent |-> spend, results |-> nres, cpa |-> Num(50), roas |-> r]

SheetFile(header, rows) ==
    [read |-> "load", workbook |-> "ok", header |-> header, rows |-> rows]

\* a report of one purchase ad
FileA ==
    SheetFile(<<[spent |-> TRUE, resultType |-> "purchase"]>>,
              <<SheetRow("Camp", "Ad1", Num(100), Num(2), Num(3))>>)

\* a report of message ads: one without spend, one with, and a totals row
\* without campaign and ad name
FileB ==
    SheetFile(<<[spent |-> TRUE, resultType |-> "message"]>>,
              <<SheetRow("Camp", "Ad1", Zero, Zero, Zero),
                SheetRow("Camp", "Ad2", Num(300), Num(1), Q(1, 5)),
                SheetRow("", "", Num(300), Num(1), Q(1, 5))>>)

FileEmpty == SheetFile(<<>>, <<>>)

FileNoSpentColumn ==
    SheetFile(<<[spent |-> FALSE, resultType |-> "generic"]>>,
              <<SheetRow("Camp", "Ad1", Num(100), Num(2), Num(3))>>)

FileNoSpend ==
    SheetFile(<<[spent |-> TRUE, resultType |-> "lead"]>>,
              <<SheetRow("Camp", "Ad1", Zero, Zero, Zero)>>)

FileCorrupt == [FileA EXCEPT !.workbook = "corrupt"]

FileUnreadable == [FileA EXCEPT !.read = "error"]

Files ==
    {FileA, FileB, FileEmpty, FileNoSpentColumn, FileNoSpend, FileCorrupt,
     FileUnreadable}

\* rows.map(...): <<the AdData of a row>>, or <<>> for the null of a row
\* without ad and campaign name
toAdData(row, detectedResultType) ==
    IF row.ad = "" /\ row.campaign = "" THEN <<>>
    ELSE <<[adSetName |-> row.adSet, adName |-> row.ad,
            amountSpent |-> row.spent, impressions |-> Num(1000),
            clicks |-> Num(10), results |-> row.results,
            costPerResult |-> row.cpa, roas |-> row.roas,
            resultType |-> detectedResultType]>>

\* .filter(item => item !== null && item.amountSpent > 0)
parsedData(file) ==
    LET mapped == [i \in 1..Len(file.rows) |->
                      toAdData(file.rows[i], file.header[1].resultType)]
        kept == FilterIdx([i \in 1..Len(mapped) |->
                      mapped[i] # <<>> /\ Gt(mapped[i][1].amountSpent, Zero)])
    IN  [j \in 1..Len(kept) |-> mapped[kept[j]][1]]

Rejection(message) == [settled |-> "rejected", message |-> message, value |-> <<>>]

\* the extractor with no reject on the path of a sheet without an ad that
\* spent: the promise stays pending
parseExcelFileLeavesPending(file) ==
    IF file.read = "error" THEN Rejection("readFailed")
    ELSE IF file.workbook = "corrupt" THEN Rejection("excelParse")
    ELSE IF Len(file.header) + Len(file.rows) < 2 THEN Rejection("emptyFile")
    ELSE IF ~file.header[1].spent THEN Rejection("noSpentColumn")
    ELSE IF Len(parsedData(file)) = 0
    THEN [settled |-> "pending", message |-> "", value |-> <<>>]
    ELSE [settled |-> "resolved", message |-> "", value |-> parsedData(file)]

\* how the promise of parseExcelFile(file) settles: the error handler of the
\* reader, or one of the paths of its load handler
parseExcelFile(file) ==
    IF file.read = "error" THEN Rejection("readFailed")
    ELSE IF file.workbook = "corrupt" THEN Rejection("excelParse")
    ELSE IF Len(file.header) + Len(file.rows) < 2 THEN Rejection("emptyFile")
    ELSE IF ~file.header[1].spent THEN Rejection("noSpentColumn")
    ELSE IF Len(parsedData(file)) = 0 THEN Rejection("noSpend")
    ELSE [settled |-> "resolved", message |-> "", value |-> parsedData(file)]

\* parseExcelFile on each file of the pool
extracted == [file \in Files |-> parseExcelFile(file)]

\* the summary analyzeAdsWithGemini computes at its call, for the records
\* of each file of the pool that has some
summarized ==
    [file \in Files |->
        IF extracted[file].settled = "resolved"
        THEN <<geminiSummary(extracted[file].value).summary>> ELSE <<>>]

----------------------------------------------------------------------------
(* The App (src/unnamed/part_001) and its file input                       *)
(* (src/components/FileUpload.tsx).  Every selected file starts a run of   *)
(* handleFileSelect; a run stands at "parsing" (its await of               *)
(* parseExcelFile), at "analyzing" (its await of analyzeAdsWithGemini), or *)
(* has ended, "succeeded" or "failed".  The state updates a run makes      *)
(* between two awaits take effect together.  A run keeps its file, its     *)
(* parsedData, whether it has called analyzeAdsWithGemini, and the summary *)
(* that call computed before its request.                                  *)

MaxRuns == 2

\* the messages analyzeAdsWithGemini rejects with: no API key, or a failed
\* request
GeminiErrors == {"apiKeyMissing", "geminiFailed"}

\* err.message || the default message
errorMessage(message) == IF message = "" THEN "default" ELSE message

\* handleFileSelect(file) up to its first await
handleFileSelect(file) ==
    /\ Len(runs) < MaxRuns
    /\ runs' = Append(runs, [file |-> file, at |-> "parsing",
                             parsedData |-> <<>>, called |-> FALSE,
                             summary |-> <<>>])
    /\ appState' = "PARSING"
    /\ error' = <<>>
    /\ UNCHANGED <<pc, data, result, engine, view, heap, analysis>>

\* a file chosen in the file dialog: the click handler and the input are
\* there while FileUpload is rendered and isLoading is false
handleChange(file) ==
    /\ appState \in {"IDLE", "ERROR"}
    /\ handleFileSelect(file)

\* a file dropped on the drop zone, which is there while FileUpload is
\* rendered
handleDrop(file) ==
    /\ appState \in {"IDLE", "PARSING", "ERROR"}
    /\ handleFileSelect(file)

\* a run whose catch block leaves the state as it is
ParseSettlesSilently(r) ==
    /\ r \in 1..Len(runs)
    /\ runs[r].at = "parsing"
    /\ LET parsed == extracted[runs[r].file]
       IN  \/ /\ parsed.settled = "resolved"
              /\ data' = parsed.value
              /\ appState' = "ANALYZING"
              /\ runs' = [runs EXCEPT ![r].at = "analyzing",
                                      ![r].parsedData = parsed.value,
                                      ![r].called = TRUE,
                                      ![r].summary = summarized[runs[r].file]]
              /\ UNCHANGED error
           \/ /\ parsed.settled = "rejected"
              /\ runs' = [runs EXCEPT ![r].at = "failed"]
              /\ UNCHANGED <<data, error, appState>>
    /\ UNCHANGED <<pc, result, engine, view, heap, analysis>>

\* the promise of parseExcelFile settles and run r goes on: to its call of
\* analyzeAdsWithGemini, which computes its summary and sends its request,
\* or through its catch block
ParseSettles(r) ==
    /\ r \in 1..Len(runs)
    /\ runs[r].at = "parsing"
    /\ LET parsed == extracted[runs[r].file]
       IN  \/ /\ parsed.settled = "resolved"
              /\ data' = parsed.value
              /\ appState' = "ANALYZING"
              /\ runs' = [runs EXCEPT ![r].at = "analyzing",
                                      ![r].parsedData = parsed.value,
                                      ![r].called = TRUE,
                                      ![r].summary = summarized[runs[r].file]]
              /\ UNCHANGED error
           \/ /\ parsed.settled = "rejected"
              /\ error' = <<errorMessage(parsed.message)>>
              /\ appState' = "ERROR"
              /\ runs' = [runs EXCEPT ![r].at = "failed"]
              /\ UNCHANGED data
    /\ UNCHANGED <<pc, result, engine, view, heap, analysis>>

\* analyzeAdsWithGemini resolves with the answer and the summary it
\* computed at its call, and run r runs to its end
GeminiResolves(r) ==
    /\ r \in 1..Len(runs)
    /\ runs[r].at = "analyzing"
    /\ \E text \in ResponseTexts :
          analysis' = <<[markdownReport |-> reportText(text),
                         summary |-> runs[r].summary[1]]>>
    /\ appState' = "SUCCESS"
    /\ runs' = [runs EXCEPT ![r].at = "succeeded"]
    /\ UNCHANGED <<pc, data, result, engine, view, heap, error>>

\* analyzeAdsWithGemini rejects and run r goes through its catch block
GeminiRejects(r) ==
    /\ r \in 1..Len(runs)
    /\ runs[r].at = "analyzing"
    /\ \E message \in GeminiErrors : error' = <<errorMessage(message)>>
    /\ appState' = "ERROR"
    /\ runs' = [runs EXCEPT ![r].at = "failed"]
    /\ UNCHANGED <<pc, data, result, engine, view, heap, analysis>>

\* the reset button of AnalysisView, rendered in SUCCESS with an analysis
handleReset ==
    /\ appState = "SUCCESS" /\ analysis # <<>>
    /\ appState' = "IDLE"
    /\ data' = <<>>
    /\ analysis' = <<>>
    /\ error' = <<>>
    /\ UNCHANGED <<pc, result, engine, view, heap, runs>>

NextApp ==
    \/ \E file \in Files : handleChange(file)
    \/ \E file \in Files : handleDrop(file)
    \/ \E r \in 1..MaxRuns : ParseSettles(r)
    \/ \E r \in 1..MaxRuns : GeminiResolves(r)
    \/ \E r \in 1..MaxRuns : GeminiRejects(r)
    \/ handleReset

SpecApp == Init /\ [][NextApp]_vars

\* the file read and the model call of every run settle in the end
SpecAppFair ==
    /\ SpecApp
    /\ \A r \in 1..MaxRuns :
          /\ WF_vars(ParseSettles(r))
          /\ WF_vars(GeminiResolves(r) \/ GeminiRejects(r))


----------------------------------------------------------------------------
(* Properties of the App.                                                  *)

\* run r takes a step
Steps(r) == runs'[r] # runs[r]

\* the step of run r is one in which the promise it awaits has rejected
Rejects(r) ==
    \/ runs[r].at = "parsing"
          /\ extracted[runs[r].file].settled = "rejected"
    \/ runs[r].at = "analyzing" /\ runs'[r].at = "failed"

\* C26: a run whose parseExcelFile or analyzeAdsWithGemini rejects sets a
\* non-null error and appState = ERROR in that step; after a rejection of
\* parseExcelFile it has not called the narrative generator and takes no
\* further step, so it never sets ANALYZING or SUCCESS
C26_FailuresSurface ==
    [][\A r \in 1..Len(runs) :
          /\ (Steps(r) /\ Rejects(r)) =>
                /\ error' # <<>>
                /\ appState' = "ERROR"
                /\ runs'[r].at = "failed"
                /\ runs'[r].called = runs[r].called
          /\ runs[r].at = "failed" => ~Steps(r)]_vars

\* one run has failed in parseExcelFile without a call of the narrative
\* generator, another in analyzeAdsWithGemini, and the App shows the error
C26_Witness ==
    /\ \E r \in 1..Len(runs) : runs[r].at = "failed" /\ ~runs[r].called
    /\ \E r \in 1..Len(runs) : runs[r].at = "failed" /\ runs[r].called
    /\ appState = "ERROR"
    /\ error # <<>>

\* C28: in every state of the App, appState = SUCCESS implies a non-null
\* analysis and a null error
C28_SuccessIsClean ==
    appState = "SUCCESS" => (analysis # <<>> /\ error = <<>>)

\* C29: in SUCCESS the data and the analysis of the App come from one file:
\* data is what the extractor made of it and analysis what the narrative
\* generator made of that data
C29_DataAndAnalysisOfOneFile ==
    appState = "SUCCESS" =>
        \E file \in Files :
            /\ parseExcelFile(file).settled = "resolved"
            /\ data = parseExcelFile(file).value
            /\ \E text \in ResponseTexts :
                  analysis = <<analyzeAdsWithGemini(data, text).returned>>

Ended(r) == r \in 1..Len(runs) /\ runs[r].at \in {"succeeded", "failed"}

\* C30: every run that has set PARSING ends, having set SUCCESS or ERROR,
\* the App leaves PARSING and ANALYZING for SUCCESS or ERROR, and the
\* promise of parseExcelFile settles for every file selected
C30_RunsTerminate ==
    /\ \A r \in 1..MaxRuns :
          (r \in 1..Len(runs) /\ runs[r].at = "parsing") ~> Ended(r)
    /\ (appState \in {"PARSING", "ANALYZING"}) ~> (appState \in {"SUCCESS", "ERROR"})
    /\ [](\A r \in 1..Len(runs) :
            extracted[runs[r].file].settled \in {"resolved", "rejected"})

\* a run on a sheet without an ad that spent has ended in ERROR, and a run
\* on a good file in SUCCESS
C30_Witness ==
    /\ \E r \in 1..Len(runs) : runs[r].file = FileNoSpend /\ runs[r].at = "failed"
    /\ \E r \in 1..Len(runs) : runs[r].at = "succeeded"
    /\ appState = "SUCCESS"

============================================================================
